---- MODULE Spec2Model ----
(***************************************************************************)
(* A model of the trip logging API (app/views.py, app/models.py,           *)
(* app/urls.py): the create-trip-with-route handler TripAPI.post, cut at   *)
(* its outbound calls and at its database insert, the read handlers        *)
(* TripAPI.get and ELDLogAPI.get, and the Trip table.                      *)
(*                                                                         *)
(* Units.  The provider reports metres and seconds; the code divides by    *)
(* 1000 and by 3600 and goes on in kilometres and hours.  The model keeps  *)
(* every quantity as the numerator of that fraction: a distance in km is   *)
(* held as a number of 1/1000 km, a duration in hours as a number of       *)
(* 1/3600 h, so that sums, the comparison against the limit and the floor  *)
(* division are exact.                                                     *)
(***************************************************************************)
EXTENDS Integers, Sequences, FiniteSets

\* ---------------------------------------------------------------- bounds
NumWorkers == 2
MaxTrips == 2

\* ------------------------------------------------------ program constants
MPerKm == 1000
SecPerHr == 3600
OverheadHrs == 2
LimitHrs == 70
StopIntervalKm == 1609
FirstId == 1

VARIABLES
    profile,    \* "seq": one handler at a time; "conc": NumWorkers handlers
    trips,      \* the Trip table: a set of rows
    nextId,     \* the table's auto-increment primary key sequence
    clock,      \* the time source of created_at (auto_now_add)
    pc,         \* per handler: where TripAPI.post stands
    req,        \* per handler: request.data, a dict (a function on its keys)
    geo,        \* per handler: the geocode responses received, in call order
    dirs,       \* per handler: the directions responses received, in order
    calls,      \* per handler: the outbound calls issued, in order
    resp,       \* per handler: the response returned
    before,     \* per handler: the Trip table as it was when the request came
    instance,   \* per handler: serializer.instance, the row save() returned
    n201,       \* number of create requests answered 201 so far
    read        \* the response of the latest GET request

vars == <<profile, trips, nextId, clock, pc, req, geo, dirs, calls, resp, before, instance, n201, read>>

Workers == 1 .. NumWorkers

Active == IF profile = "seq" THEN {1} ELSE Workers

\* ------------------------------------------------------------ the inputs
LocationFields == {"current_location", "pickup_location", "dropoff_location"}

FullRequest(c) ==
    [current_location |-> "A", pickup_location |-> "B",
     dropoff_location |-> "C", current_cycle_used |-> c]

NoPickup ==
    [current_location |-> "A", dropoff_location |-> "C", current_cycle_used |-> 0]

NoCycle ==
    [current_location |-> "A", pickup_location |-> "B", dropoff_location |-> "C"]

ValidRequests ==
    IF profile = "seq" THEN {FullRequest(0), FullRequest(66)} ELSE {FullRequest(0)}

InvalidRequests ==
    IF profile = "seq"
    THEN {NoPickup, NoCycle, FullRequest(-1),
          [FullRequest(0) EXCEPT !.current_location = ""],
          [FullRequest(0) EXCEPT !.pickup_location = ""],
          [FullRequest(66) EXCEPT !.dropoff_location = ""]}
    ELSE {NoPickup}

RequestInputs == ValidRequests \cup InvalidRequests

\* What requests.get(geocode_url, ...).json() can give back, "raise" being an
\* exception out of requests.get or out of .json():
\*   match       {"features": [{"geometry": {"coordinates": [..]}}, ..]}
\*   nomatch     {"features": []} or a body without "features"
\*   nogeometry  {"features": [{}]}: a feature without geometry/coordinates
\*   nondict     a JSON body that is no object (it has no .get)
GeocodeOutcomes ==
    IF profile = "seq"
    THEN {"match", "nomatch", "nogeometry", "nondict", "raise"}
    ELSE {"match", "nomatch", "raise"}

Summaries ==
    IF profile = "seq"
    THEN {[distance |-> 0, duration |-> 3600],
          [distance |-> 1608900, duration |-> 3600],
          [distance |-> 1609000, duration |-> 3601]}
    ELSE {[distance |-> 1609000, duration |-> 3600]}

NoSummary == [distance |-> 0, duration |-> 0]

\* What requests.post(directions_url, ...).json() can give back:
\*   route       routes[0] with summary.distance, summary.duration and
\*               segments[0].steps
\*   nosegments  routes[0] with its summary but without segments[0].steps
\*   nosummary   routes[0] without summary
\*   noroute     {"routes": []}, or a body without "routes" (an error body)
\*   nondict     a JSON body that is no object
\*   raise       an exception out of requests.post or out of .json()
DirectionsOutcomes ==
    {[kind |-> k, summary |-> s] : k \in {"route", "nosegments"}, s \in Summaries}
    \cup {[kind |-> k, summary |-> NoSummary] :
            k \in IF profile = "seq"
                  THEN {"nosummary", "noroute", "nondict", "raise"}
                  ELSE {"noroute", "raise"}}

PkInputs == 0 .. (MaxTrips + 1)

\* --------------------------------------------------------- the responses
NoResponse == [status |-> 0, error |-> "", trip |-> {}, route |-> {}]

ErrorResponse(st, e) == [status |-> st, error |-> e, trip |-> {}, route |-> {}]

NoRead == [op |-> "none", pk |-> 0, status |-> 0, many |-> FALSE, body |-> {}]


\* ---------------------------------------------------------- the serializer
\* TripSerializer(data=request.data).is_valid(): every field present, the
\* three locations non-empty, current_cycle_used not negative.
IsValid(data) ==
    /\ LocationFields \subseteq DOMAIN data
    /\ "current_cycle_used" \in DOMAIN data
    /\ \A f \in LocationFields : data[f] # ""
    /\ data["current_cycle_used"] >= 0

\* serializer.validated_data of a request: the submitted fields.
ValidatedData(data) == data

\* serializer.data / TripSerializer(trip).data: the row's fields.
Serialize(trip) == trip

\* ------------------------------------------------------------- the table
\* Trip(**validated_data) as the insert writes it: a fresh primary key and
\* created_at = now (auto_now_add).
Row(vd, id, at) ==
    [id |-> id,
     current_location |-> vd["current_location"],
     pickup_location |-> vd["pickup_location"],
     dropoff_location |-> vd["dropoff_location"],
     current_cycle_used |-> vd["current_cycle_used"],
     created_at |-> at]

\* Trip.objects.get(id=pk): the rows with that primary key (none: DoesNotExist).
Lookup(pk) == {t \in trips : t.id = pk}

\* ---------------------------------------------- TripAPI.post, its helpers
\* serializer.validated_data.get(f): None when the key is absent.
Truthy(vd, f) == f \in DOMAIN vd /\ vd[f] # ""

LocationsPresent(vd) == \A f \in LocationFields : Truthy(vd, f)

\* serializer.validated_data.get('current_cycle_used', 0)
CycleUsed(vd) ==
    IF "current_cycle_used" \in DOMAIN vd THEN vd["current_cycle_used"] ELSE 0

\* The first index of s whose element is in bad, 0 when there is none: the
\* operand at which a chain of "not x.get(..) or not y.get(..) or .." stops.
FirstIn(s, bad) ==
    IF \E i \in 1 .. Len(s) : s[i] \in bad
    THEN CHOOSE i \in 1 .. Len(s) : s[i] \in bad /\ \A j \in 1 .. (i - 1) : s[j] \notin bad
    ELSE 0

\* Lines 53-58 on the three geocode responses g, in call order: the features
\* test, left to right (a body without .get raises), then the coordinates of
\* features[0] (a feature without geometry raises).
GeocodeVerdict(g) ==
    LET i == FirstIn(g, {"nomatch", "nondict"})
    IN  IF i # 0
        THEN IF g[i] = "nondict" THEN "raise" ELSE "nomatch"
        ELSE IF \E j \in 1 .. Len(g) : g[j] = "nogeometry" THEN "raise" ELSE "ok"

Kinds(d) == [i \in 1 .. Len(d) |-> d[i].kind]

\* Lines 77-85 on the two directions responses d: the routes test, left to
\* right, then routes[0].summary of each.
RouteVerdict(d) ==
    LET i == FirstIn(Kinds(d), {"noroute", "nondict"})
    IN  IF i # 0
        THEN IF d[i].kind = "nondict" THEN "raise" ELSE "noroute"
        ELSE IF \E j \in 1 .. Len(d) : d[j].kind = "nosummary" THEN "raise" ELSE "ok"

\* Lines 81 and 84: summary.distance / 1000, in 1/1000 km.
DistanceKm(o) == o.summary.distance

\* Lines 82 and 85: summary.duration / 3600, in 1/3600 h.
DurationHrs(o) == o.summary.duration

\* Line 87, in 1/1000 km.
TotalDistanceKm(d) == DistanceKm(d[1]) + DistanceKm(d[2])

\* Line 88, in 1/3600 h: the two legs plus 2 hours for pickup and dropoff.
TotalDurationHrs(d) == DurationHrs(d[1]) + DurationHrs(d[2]) + OverheadHrs * SecPerHr

\* Variant of line 91 with >= for >: exactly 70 hours is refused.

HoursExceededInclusive(cycle, total) == cycle * SecPerHr + total >= LimitHrs * SecPerHr

\* Line 91: current_cycle_used + total_duration_hrs > 70, total in 1/3600 h.
HoursExceeded(cycle, total) == cycle * SecPerHr + total > LimitHrs * SecPerHr

\* Variant of line 95 that rounds to the nearest stop instead of flooring.

FuelingStopsRounded(total) ==
    (2 * total + StopIntervalKm * MPerKm) \div (2 * StopIntervalKm * MPerKm)

\* Line 95: int(total_distance_km // 1609), total in 1/1000 km.
FuelingStops(total) == total \div (StopIntervalKm * MPerKm)

\* Line 119: 70 - (current_cycle_used + total_duration_hrs), in 1/3600 h.
HoursRemaining(cycle, total) == LimitHrs * SecPerHr - (cycle * SecPerHr + total)

\* Lines 107 and 112: routes[0]['segments'][0]['steps'] of both responses.
StepsPresent(d) == \A j \in 1 .. Len(d) : d[j].kind # "nosegments"

\* Lines 101-120: the body of the 201 response.
Created(vd, rows, d) ==
    [status |-> 201, error |-> "", trip |-> {Serialize(t) : t \in rows},
     route |-> {[total_distance |-> TotalDistanceKm(d),
                 total_duration |-> TotalDurationHrs(d),
                 fueling_stops |-> FuelingStops(TotalDistanceKm(d)),
                 current_cycle_used |-> CycleUsed(vd),
                 hours_remaining |-> HoursRemaining(CycleUsed(vd), TotalDurationHrs(d))]}]

\* A return out of the handler: the response, and nothing else touched.
Return(w, r) ==
    /\ resp' = [resp EXCEPT ![w] = r]
    /\ pc' = [pc EXCEPT ![w] = "done"]

Goto(w, label) ==
    /\ pc' = [pc EXCEPT ![w] = label]
    /\ UNCHANGED resp

Init ==
    /\ profile = "seq"
    /\ trips = {}
    /\ nextId = FirstId
    /\ clock = 0
    /\ pc = [w \in Workers |-> "idle"]
    /\ req = [w \in Workers |-> <<>>]
    /\ geo = [w \in Workers |-> <<>>]
    /\ dirs = [w \in Workers |-> <<>>]
    /\ calls = [w \in Workers |-> <<>>]
    /\ resp = [w \in Workers |-> NoResponse]
    /\ before = [w \in Workers |-> {}]
    /\ instance = [w \in Workers |-> {}]
    /\ n201 = 0
    /\ read = NoRead

InitConc ==
    /\ profile = "conc"
    /\ trips = {}
    /\ nextId = FirstId
    /\ clock = 0
    /\ pc = [w \in Workers |-> "idle"]
    /\ req = [w \in Workers |-> <<>>]
    /\ geo = [w \in Workers |-> <<>>]
    /\ dirs = [w \in Workers |-> <<>>]
    /\ calls = [w \in Workers |-> <<>>]
    /\ resp = [w \in Workers |-> NoResponse]
    /\ before = [w \in Workers |-> {}]
    /\ instance = [w \in Workers |-> {}]
    /\ n201 = 0
    /\ read = NoRead

\* ------------------------------------------------- TripAPI.post, its steps
\* A POST arrives at handler w with request.data = data.
Accept(w, data) ==
    /\ pc[w] = "idle"
    /\ w \in Active
    /\ Cardinality(trips) < MaxTrips
    /\ req' = [req EXCEPT ![w] = data]
    /\ before' = [before EXCEPT ![w] = trips]
    /\ UNCHANGED <<profile, trips, nextId, clock, geo, dirs, calls, instance, n201, read>>

\* Variant of lines 29-40 without the is_valid() test.

PostValidateUnchecked(w) ==
    \E data \in RequestInputs :
        /\ Accept(w, data)
        /\ IF ~LocationsPresent(ValidatedData(data))
           THEN Return(w, ErrorResponse(400, "locations_required"))
           ELSE Goto(w, "geocode_current")

\* Variant of lines 29-40 that goes to the provider before any validation.

PostValidateLate(w) ==
    \E data \in RequestInputs :
        /\ Accept(w, data)
        /\ Goto(w, "geocode_current")

\* Lines 29-40 and 125: is_valid(), then the three locations.
PostValidate(w) ==
    \E data \in RequestInputs :
        /\ Accept(w, data)
        /\ IF ~IsValid(data)
           THEN Return(w, ErrorResponse(400, "validation"))
           ELSE IF ~LocationsPresent(ValidatedData(data))
                THEN Return(w, ErrorResponse(400, "locations_required"))
                ELSE Goto(w, "geocode_current")

\* One requests.get(geocode_url, ...).json(): an exception goes to the
\* handler's except clause (line 122), anything else is kept.
GeocodeCall(w, at, next) ==
    /\ pc[w] = at
    /\ calls' = [calls EXCEPT ![w] = Append(@, at)]
    /\ \E o \in GeocodeOutcomes :
          IF o = "raise"
          THEN /\ Return(w, ErrorResponse(500, "exception"))
               /\ UNCHANGED geo
          ELSE /\ geo' = [geo EXCEPT ![w] = Append(@, o)]
               /\ Goto(w, next)
    /\ UNCHANGED <<profile, trips, nextId, clock, req, dirs, before, instance, n201, read>>

\* Line 49.
GeocodeCurrent(w) == GeocodeCall(w, "geocode_current", "geocode_pickup")

\* Line 50.
GeocodePickup(w) == GeocodeCall(w, "geocode_pickup", "geocode_dropoff")

\* Variant of lines 53-58 that tests the features of the last response only:
\* an earlier response without a usable features[0] then raises at lines 56-57.

AfterGeocodeLastOnly(w, g) ==
    IF g[Len(g)] = "nomatch"
    THEN Return(w, ErrorResponse(400, "geocode"))
    ELSE IF \E j \in 1 .. Len(g) : g[j] # "match"
         THEN Return(w, ErrorResponse(500, "exception"))
         ELSE Goto(w, "directions_current_to_pickup")

\* Lines 53-58, once the three responses g are in.
AfterGeocode(w, g) ==
    IF GeocodeVerdict(g) = "nomatch"
    THEN Return(w, ErrorResponse(400, "geocode"))
    ELSE IF GeocodeVerdict(g) = "raise"
         THEN Return(w, ErrorResponse(500, "exception"))
         ELSE Goto(w, "directions_current_to_pickup")

\* Lines 51-58: the third geocoding call, then the test of all three.
GeocodeDropoff(w) ==
    /\ pc[w] = "geocode_dropoff"
    /\ calls' = [calls EXCEPT ![w] = Append(@, "geocode_dropoff")]
    /\ \E o \in GeocodeOutcomes :
          IF o = "raise"
          THEN /\ Return(w, ErrorResponse(500, "exception"))
               /\ UNCHANGED geo
          ELSE /\ geo' = [geo EXCEPT ![w] = Append(@, o)]
               /\ AfterGeocode(w, Append(geo[w], o))
    /\ UNCHANGED <<profile, trips, nextId, clock, req, dirs, before, instance, n201, read>>

\* Lines 63-67: the first directions call.
DirectionsCurrentToPickup(w) ==
    /\ pc[w] = "directions_current_to_pickup"
    /\ calls' = [calls EXCEPT ![w] = Append(@, "directions_current_to_pickup")]
    /\ \E o \in DirectionsOutcomes :
          IF o.kind = "raise"
          THEN /\ Return(w, ErrorResponse(500, "exception"))
               /\ UNCHANGED dirs
          ELSE /\ dirs' = [dirs EXCEPT ![w] = Append(@, o)]
               /\ Goto(w, "directions_pickup_to_dropoff")
    /\ UNCHANGED <<profile, trips, nextId, clock, req, geo, before, instance, n201, read>>

\* Lines 77-95, once the two responses d are in: the routes test, the
\* summaries, the 70-hour rule.
AfterDirections(w, d) ==
    IF RouteVerdict(d) = "noroute"
    THEN Return(w, ErrorResponse(400, "no_route"))
    ELSE IF RouteVerdict(d) = "raise"
         THEN Return(w, ErrorResponse(500, "exception"))
         ELSE IF HoursExceeded(CycleUsed(ValidatedData(req[w])), TotalDurationHrs(d))
              THEN Return(w, ErrorResponse(400, "hours_limit"))
              ELSE Goto(w, "save")

\* Lines 70-95: the second directions call, then the tests.
DirectionsPickupToDropoff(w) ==
    /\ pc[w] = "directions_pickup_to_dropoff"
    /\ calls' = [calls EXCEPT ![w] = Append(@, "directions_pickup_to_dropoff")]
    /\ \E o \in DirectionsOutcomes :
          IF o.kind = "raise"
          THEN /\ Return(w, ErrorResponse(500, "exception"))
               /\ UNCHANGED dirs
          ELSE /\ dirs' = [dirs EXCEPT ![w] = Append(@, o)]
               /\ AfterDirections(w, Append(dirs[w], o))
    /\ UNCHANGED <<profile, trips, nextId, clock, req, geo, before, instance, n201, read>>

\* Variant of line 98 that inserts the Trip twice.

SaveTwice(w) ==
    /\ pc[w] = "save"
    /\ trips' = trips \cup {Row(ValidatedData(req[w]), nextId, clock),
                            Row(ValidatedData(req[w]), nextId + 1, clock)}
    /\ instance' = [instance EXCEPT ![w] = {Row(ValidatedData(req[w]), nextId + 1, clock)}]
    /\ nextId' = nextId + 2
    /\ clock' = clock + 1
    /\ Goto(w, "respond")
    /\ UNCHANGED <<profile, req, geo, dirs, calls, before, n201, read>>

\* Variant of line 98 that writes over the row of the first primary key.

SaveOverwrite(w) ==
    /\ pc[w] = "save"
    /\ trips' = {Row(ValidatedData(req[w]), FirstId, clock)}
    /\ instance' = [instance EXCEPT ![w] = {Row(ValidatedData(req[w]), FirstId, clock)}]
    /\ nextId' = nextId + 1
    /\ clock' = clock + 1
    /\ Goto(w, "respond")
    /\ UNCHANGED <<profile, req, geo, dirs, calls, before, n201, read>>

\* Line 98: serializer.save(), one INSERT; the table hands out the primary
\* key.  A row without current_cycle_used violates NOT NULL and raises.
Save(w) ==
    /\ pc[w] = "save"
    /\ IF "current_cycle_used" \in DOMAIN ValidatedData(req[w])
       THEN /\ trips' = trips \cup {Row(ValidatedData(req[w]), nextId, clock)}
            /\ instance' = [instance EXCEPT ![w] = {Row(ValidatedData(req[w]), nextId, clock)}]
            /\ nextId' = nextId + 1
            /\ clock' = clock + 1
            /\ Goto(w, "respond")
       ELSE /\ Return(w, ErrorResponse(500, "exception"))
            /\ UNCHANGED <<trips, instance, nextId, clock>>
    /\ UNCHANGED <<profile, req, geo, dirs, calls, before, n201, read>>

\* Lines 101-123: the response is built after the insert; the steps of both
\* routes are read here, and a route without them raises into line 122.
Respond(w) ==
    /\ pc[w] = "respond"
    /\ IF StepsPresent(dirs[w])
       THEN /\ Return(w, Created(ValidatedData(req[w]), instance[w], dirs[w]))
            /\ n201' = n201 + 1
       ELSE /\ Return(w, ErrorResponse(500, "exception"))
            /\ UNCHANGED n201
    /\ UNCHANGED <<profile, trips, nextId, clock, req, geo, dirs, calls, before, instance, read>>

\* The handler is done with the request and takes the next one: its locals go.
Finish(w) ==
    /\ pc[w] = "done"
    /\ pc' = [pc EXCEPT ![w] = "idle"]
    /\ req' = [req EXCEPT ![w] = <<>>]
    /\ geo' = [geo EXCEPT ![w] = <<>>]
    /\ dirs' = [dirs EXCEPT ![w] = <<>>]
    /\ calls' = [calls EXCEPT ![w] = <<>>]
    /\ resp' = [resp EXCEPT ![w] = NoResponse]
    /\ before' = [before EXCEPT ![w] = {}]
    /\ instance' = [instance EXCEPT ![w] = {}]
    /\ UNCHANGED <<profile, trips, nextId, clock, n201, read>>

\* ------------------------------------------------------------- the reads
posts == <<pc, req, geo, dirs, calls, resp, before, instance, n201>>

\* Lines 127-143 behind trips/<int:pk>/: "if pk:" takes 0 for no pk.
Get(pk) ==
    /\ read' = IF pk # 0
               THEN IF Lookup(pk) # {}
                    THEN [op |-> "get", pk |-> pk, status |-> 200, many |-> FALSE,
                          body |-> {Serialize(t) : t \in Lookup(pk)}]
                    ELSE [op |-> "get", pk |-> pk, status |-> 404, many |-> FALSE,
                          body |-> {}]
               ELSE [op |-> "get", pk |-> pk, status |-> 200, many |-> TRUE,
                     body |-> {Serialize(t) : t \in trips}]
    /\ UNCHANGED <<profile, trips, nextId, clock, posts>>

\* Lines 139-143 behind trips/: pk is None.
List ==
    /\ read' = [op |-> "list", pk |-> 0, status |-> 200, many |-> TRUE,
                body |-> {Serialize(t) : t \in trips}]
    /\ UNCHANGED <<profile, trips, nextId, clock, posts>>

\* ELDLogAPI.get, lines 151-207: the PDF of one Trip, or 404.
Render(trip_id) ==
    /\ read' = IF Lookup(trip_id) # {}
               THEN [op |-> "render", pk |-> trip_id, status |-> 200, many |-> FALSE,
                     body |-> Lookup(trip_id)]
               ELSE [op |-> "render", pk |-> trip_id, status |-> 404, many |-> FALSE,
                     body |-> {}]
    /\ UNCHANGED <<profile, trips, nextId, clock, posts>>

Next ==
    \/ \E w \in Workers :
          \/ PostValidate(w)
          \/ GeocodeCurrent(w)
          \/ GeocodePickup(w)
          \/ GeocodeDropoff(w)
          \/ DirectionsCurrentToPickup(w)
          \/ DirectionsPickupToDropoff(w)
          \/ Save(w)
          \/ Respond(w)
          \/ Finish(w)
    \/ \E pk \in PkInputs : Get(pk)
    \/ List
    \/ \E trip_id \in PkInputs : Render(trip_id)

Spec == Init /\ [][Next]_vars

ConcSpec == InitConc /\ [][Next]_vars

\* ------------------------------------------------------------ the claims
\* The outbound calls of one request, in the order of lines 49-74.
CallOrder ==
    <<"geocode_current", "geocode_pickup", "geocode_dropoff",
      "directions_current_to_pickup", "directions_pickup_to_dropoff">>

\* Both directions responses of handler w are in and carry a summary.
HasSummaries(w) ==
    /\ Len(dirs[w]) = 2
    /\ \A i \in 1 .. 2 : dirs[w][i].kind \in {"route", "nosegments"}

\* current_cycle_used + total_duration of handler w's request, in seconds.
CumulativeSeconds(w) ==
    3600 * req[w]["current_cycle_used"]
        + dirs[w][1].summary.duration + dirs[w][2].summary.duration + 2 * 3600

\* The request of handler w lacks a location or has an empty one.
LocationMissing(w) ==
    \E f \in LocationFields : f \notin DOMAIN req[w] \/ req[w][f] = ""

\* The request of handler w carries a negative current_cycle_used.
CycleNegative(w) ==
    "current_cycle_used" \in DOMAIN req[w] /\ req[w]["current_cycle_used"] < 0

\* C1: trip creation is all-or-nothing: a request answered 400 or 500 leaves
\* the Trip table exactly as it was when the request arrived, so the table
\* gains a row only when the request ends with 201.
C1_AllOrNothing ==
    \A w \in Workers :
        (pc[w] = "done" /\ resp[w].status \in {400, 500}) => trips = before[w]

\* C2: whenever current_cycle_used + total_duration exceeds 70 hours, at full
\* precision, the request ends with the 400 hours-limit error and the table
\* is unchanged; a cumulative value of exactly 70 hours is not rejected.
C2_HoursLimit ==
    \A w \in Workers :
        HasSummaries(w) =>
            /\ CumulativeSeconds(w) > 70 * 3600 =>
                  /\ pc[w] = "done"
                  /\ resp[w].status = 400
                  /\ resp[w].error = "hours_limit"
                  /\ trips = before[w]
            /\ CumulativeSeconds(w) = 70 * 3600 =>
                  /\ pc[w] \in {"save", "respond", "done"}
                  /\ resp[w].error # "hours_limit"
                  /\ pc[w] = "done" => resp[w].status # 400

\* C2 witness: a request one second over the limit (66 h used, legs of 3600 s
\* and 3601 s) has been rejected with the hours-limit error.
C2_Witness ==
    \E w \in Workers :
        /\ HasSummaries(w)
        /\ CumulativeSeconds(w) = 70 * 3600 + 1
        /\ resp[w].error = "hours_limit"

\* C3: a valid request whose three geocoding calls matched, whose two
\* directions calls returned a route and whose cumulative hours are at most 70
\* ends with 201, and the table then holds exactly one more Trip than before,
\* with an id no earlier Trip has.
C3_CreateSucceeds ==
    \A w \in Workers :
        ( /\ pc[w] = "done"
          /\ ~LocationMissing(w)
          /\ "current_cycle_used" \in DOMAIN req[w]
          /\ ~CycleNegative(w)
          /\ geo[w] = <<"match", "match", "match">>
          /\ Len(dirs[w]) = 2
          /\ \A i \in 1 .. 2 : dirs[w][i].kind = "route"
          /\ CumulativeSeconds(w) <= 70 * 3600 )
        => /\ resp[w].status = 201
           /\ before[w] \subseteq trips
           /\ Cardinality(trips) = Cardinality(before[w]) + 1
           /\ \A t \in trips \ before[w] :
                 /\ \A u \in before[w] : u.id # t.id
                 /\ resp[w].trip = {t}

\* C3 witness: a second Trip has been created, at exactly 70 cumulative hours.
C3_Witness ==
    \E w \in Workers :
        /\ pc[w] = "done"
        /\ resp[w].status = 201
        /\ Cardinality(before[w]) = 1
        /\ Cardinality(trips) = 2
        /\ CumulativeSeconds(w) = 70 * 3600

C5_ValidationFirst ==
    \A w \in Workers :
        /\ (pc[w] # "idle" /\ LocationMissing(w)) =>
              /\ pc[w] = "done"
              /\ resp[w].status = 400
              /\ calls[w] = <<>>
              /\ geo[w] = <<>>
              /\ dirs[w] = <<>>
        /\ resp[w].error \in {"validation", "locations_required"} => calls[w] = <<>>

\* C5 witness: a request without pickup_location has been answered 400.
C5_Witness ==
    \E w \in Workers :
        /\ pc[w] = "done"
        /\ "pickup_location" \notin DOMAIN req[w]
        /\ resp[w].status = 400
        /\ calls[w] = <<>>

\* C6: get-trip(id) answers 404 for every id the route accepts (0 included)
\* under which no Trip is stored, answers the single Trip otherwise, and never
\* answers with the list of all trips.
C6_GetTrip ==
    read.op = "get" =>
        /\ ~read.many
        /\ Lookup(read.pk) = {} => read.status = 404
        /\ read.status = 200 => read.body = Lookup(read.pk)

\* C7: under any interleaving of create requests no two stored Trips share an
\* id, and, no handler standing between its insert and its response, the
\* number of stored Trips is the number of requests answered 201.
C7_UniqueIdsAndCount ==
    /\ \A t, u \in trips : t.id = u.id => t = u
    /\ (\A w \in Workers : pc[w] # "respond") => Cardinality(trips) = n201

\* C8: in every 201 response fueling_stops is floor(total_distance_km / 1609),
\* the total being the two leg distances in metres over 1000, unrounded: a
\* non-negative integer n with n * 1609 km <= total < (n + 1) * 1609 km.
C8_FuelingStops ==
    \A w \in Workers :
        resp[w].status = 201 =>
            /\ resp[w].route # {}
            /\ \A r \in resp[w].route :
                  LET metres == dirs[w][1].summary.distance + dirs[w][2].summary.distance
                  IN  /\ r.fueling_stops \in Nat
                      /\ r.fueling_stops * 1609 * 1000 <= metres
                      /\ metres < (r.fueling_stops + 1) * 1609 * 1000

\* C8 witness: a 201 response for 1608.9 km in total, with 0 fueling stops.
C8_Witness ==
    \E w \in Workers :
        /\ resp[w].status = 201
        /\ dirs[w][1].summary.distance + dirs[w][2].summary.distance = 1608900
        /\ \E r \in resp[w].route : r.fueling_stops = 0

C10_FailFast ==
    \A w \in Workers :
        /\ Len(calls[w]) <= 5
        /\ calls[w] = SubSeq(CallOrder, 1, Len(calls[w]))
        /\ \A i \in 1 .. Len(geo[w]) : geo[w][i] = "nomatch" => Len(calls[w]) = i
        /\ \A i \in 1 .. Len(dirs[w]) : dirs[w][i].kind = "noroute" => Len(calls[w]) = 3 + i

\* C10 as amended: the calls go out in the order of CallOrder, each at most
\* once; after a geocoding call returned no match no directions call is
\* issued, and when all three geocode responses are in and the first one that
\* fails the features test is a no-match, the request ends with the 400
\* geocoding error after exactly the three geocoding calls; when both
\* directions responses are in and the first one that fails the routes test
\* is a no-route, the request ends with the 400 no-route error after exactly
\* five calls and stores nothing.
C10_CallOrder ==
    \A w \in Workers :
        /\ Len(calls[w]) <= 5
        /\ calls[w] = SubSeq(CallOrder, 1, Len(calls[w]))
        /\ (\E i \in 1 .. Len(geo[w]) : geo[w][i] = "nomatch") => Len(calls[w]) <= 3
        /\ ( /\ Len(geo[w]) = 3
             /\ \E i \in 1 .. 3 :
                   /\ geo[w][i] = "nomatch"
                   /\ \A j \in 1 .. (i - 1) : geo[w][j] # "nondict" )
           => /\ pc[w] = "done"
              /\ resp[w] = ErrorResponse(400, "geocode")
              /\ Len(calls[w]) = 3
        /\ ( /\ Len(dirs[w]) = 2
             /\ \E i \in 1 .. 2 :
                   /\ dirs[w][i].kind = "noroute"
                   /\ \A j \in 1 .. (i - 1) : dirs[w][j].kind # "nondict" )
           => /\ pc[w] = "done"
              /\ resp[w] = ErrorResponse(400, "no_route")
              /\ Len(calls[w]) = 5
              /\ trips = before[w]

\* C10 witness: the first geocoding call returned no match, the two others
\* were still issued, and the request ended with 400.
C10_Witness ==
    \E w \in Workers :
        /\ pc[w] = "done"
        /\ geo[w] = <<"nomatch", "match", "match">>
        /\ Len(calls[w]) = 3
        /\ resp[w].status = 400

====
